---- MODULE Spec2Model ----
(***************************************************************************)
(* Model of pdsl_core::storage::cell::sync_cell: a write-back, lazily      *)
(* synchronised cache (Cache / CacheEntry / SyncCacheEntry) in front of    *)
(* one storage slot (TypedCell), and the public SyncCell operations        *)
(* get, get_mut, set, clear, mutate_with and flush.                        *)
(*                                                                         *)
(* Option<T> is a sequence: None is <<>>, Some(v) is <<v>>.                *)
(***************************************************************************)
EXTENDS Integers, Sequences, FiniteSets, TLC

\* ---------------------------------------------------------------- bounds
\* Number of SyncCell calls in a run.
MaxOps == 5
\* The values of T are 1..MaxVal.
MaxVal == 2
\* A slot address (Key) is KeyLen bytes, each in 0..MaxByte.
KeyLen == 1
MaxByte == 1

Values == 1..MaxVal

None == <<>>
Some(v) == <<v>>
Bytes == 0..MaxByte
Keys == [1..KeyLen -> Bytes]
\* Key([0x0; 32]), the first address the bump allocator of the tests gives.
FirstKey == [i \in 1..KeyLen |-> 0]
\* What may follow an encoded cell in the input that decode reads from.
Tails == {<<>>, <<MaxByte>>}

OptionT == {None} \cup {Some(v) : v \in Values}

\* The FnOnce(&mut T) closures a caller may hand to mutate_with.
Closures == [Values -> Values]

\* ------------------------------------------------------ SyncCacheEntry
\* Faulty variant: a new entry drops the value it is given.
SyncCacheEntry_new_empty(val) == [dirty |-> FALSE, cell_val |-> None]

SyncCacheEntry_new(val) == [dirty |-> FALSE, cell_val |-> val]

\* Faulty variant: the first cached value wins, later updates are dropped.
SyncCacheEntry_update_keepsOld(se, new_val) == se

SyncCacheEntry_update(se, new_val) == [se EXCEPT !.cell_val = new_val]

SyncCacheEntry_is_dirty(se) == se.dirty

\* Faulty variant: the dirty flag is never raised.
SyncCacheEntry_mark_dirty_noop(se) == se

SyncCacheEntry_mark_dirty(se) == [se EXCEPT !.dirty = TRUE]

\* Faulty variant: the dirty flag is never lowered.
SyncCacheEntry_mark_clean_noop(se) == se

SyncCacheEntry_mark_clean(se) == [se EXCEPT !.dirty = FALSE]

SyncCacheEntry_get(se) == se.cell_val

\* get_mut marks the entry dirty before handing out the reference.
SyncCacheEntry_get_mut(se) ==
    [entry |-> SyncCacheEntry_mark_dirty(se), ret |-> se.cell_val]

\* ---------------------------------------------------------- CacheEntry
Desync == [tag |-> "Desync"]
Sync(se) == [tag |-> "Sync", sync_entry |-> se]

CacheEntry_default == Desync

CacheEntry_update(e, new_val) ==
    IF e.tag = "Desync"
    THEN Sync(SyncCacheEntry_new(new_val))
    ELSE Sync(SyncCacheEntry_update(e.sync_entry, new_val))

\* Faulty variant: every entry is taken to be in sync.
CacheEntry_is_synced_always(e) == TRUE

\* Faulty variant: a clean entry is taken for one that is not in sync.
CacheEntry_is_synced_onlyDirty(e) == e.tag = "Sync" /\ e.sync_entry.dirty

CacheEntry_is_synced(e) == e.tag = "Sync"

\* Faulty variant: every synchronised entry counts as dirty.
CacheEntry_is_dirty_whenSynced(e) == e.tag = "Sync"

CacheEntry_is_dirty(e) ==
    IF e.tag = "Desync" THEN FALSE ELSE SyncCacheEntry_is_dirty(e.sync_entry)

\* Faulty variant: marking a Desync entry dirty makes it an empty Sync one.
CacheEntry_mark_dirty_syncs(e) ==
    IF e.tag = "Sync"
    THEN Sync(SyncCacheEntry_mark_dirty(e.sync_entry))
    ELSE Sync([dirty |-> TRUE, cell_val |-> None])

CacheEntry_mark_dirty(e) ==
    IF e.tag = "Sync" THEN Sync(SyncCacheEntry_mark_dirty(e.sync_entry)) ELSE e

\* Faulty variant: cleaning the entry drops the cached value.
CacheEntry_mark_clean_desyncs(e) == Desync

CacheEntry_mark_clean(e) ==
    IF e.tag = "Sync" THEN Sync(SyncCacheEntry_mark_clean(e.sync_entry)) ELSE e

\* CacheEntry::get and CacheEntry::get_mut panic on a Desync entry; panic
\* is TRUE in that case and the returned value is then meaningless.
CacheEntry_get(e) ==
    IF e.tag = "Desync"
    THEN [panic |-> TRUE, ret |-> None]
    ELSE [panic |-> FALSE, ret |-> SyncCacheEntry_get(e.sync_entry)]

CacheEntry_get_mut(e) ==
    IF e.tag = "Desync"
    THEN [panic |-> TRUE, entry |-> e, ret |-> None]
    ELSE LET r == SyncCacheEntry_get_mut(e.sync_entry)
         IN  [panic |-> FALSE, entry |-> Sync(r.entry), ret |-> r.ret]

\* --------------------------------------------------------------- Cache
\* Cache forwards every operation to the CacheEntry in its RefCell.
Cache_default == CacheEntry_default
Cache_update(c, new_val) == CacheEntry_update(c, new_val)
Cache_is_synced(c) == CacheEntry_is_synced(c)
Cache_is_dirty(c) == CacheEntry_is_dirty(c)
\* Faulty variant: Cache::mark_dirty does not reach the entry.
Cache_mark_dirty_noop(c) == c
Cache_mark_dirty(c) == CacheEntry_mark_dirty(c)
Cache_mark_clean(c) == CacheEntry_mark_clean(c)
Cache_get(c) == CacheEntry_get(c)
Cache_get_mut(c) == CacheEntry_get_mut(c)

\* ----------------------------------------------------------- TypedCell
\* The underlying slot: load is one accounted read, store and clear are
\* one accounted write each.  s is the record [cache, slot, reads, writes].
TypedCell_load(s) == [s |-> [s EXCEPT !.reads = @ + 1], loaded |-> s.slot]
TypedCell_store(s, val) == [s EXCEPT !.slot = Some(val), !.writes = @ + 1]
TypedCell_clear(s) == [s EXCEPT !.slot = None, !.writes = @ + 1]

\* The codec of the slot handle: encode_to appends the bytes of the key to
\* the output, decode consumes KeyLen bytes of the input and fails when
\* there are fewer.
TypedCell_encode_to(k, dest) == dest \o k
TypedCell_decode(input) ==
    IF Len(input) >= KeyLen THEN Some(SubSeq(input, 1, KeyLen)) ELSE None

\* ------------------------------------------------------------ SyncCell
\* Every operation maps the record s = [cache, slot, reads, writes] to
\* [s |-> the state after, ret |-> the result, panic |-> it aborted,
\*  invoked |-> the closure was called].

SyncCell_new_using_alloc(slot0) ==
    [cache |-> Cache_default, slot |-> slot0, reads |-> 0, writes |-> 0]

\* if !self.cache.is_synced() { loaded = self.cell.load(); update(loaded) }
EnsureSynced(s) ==
    IF ~Cache_is_synced(s.cache)
    THEN LET l == TypedCell_load(s)
         IN  [l.s EXCEPT !.cache = Cache_update(@, l.loaded)]
    ELSE s

\* encode_to writes only self.cell; the cache is not written.
SyncCell_encode_to(k, dest) == TypedCell_encode_to(k, dest)

\* Faulty variant: a decoded cell starts with a synchronised, empty cache.
SyncCell_decode_synced(input) ==
    LET tc == TypedCell_decode(input)
    IN  IF tc = None THEN None
        ELSE Some([cell |-> tc[1], cache |-> Sync(SyncCacheEntry_new(None))])

SyncCell_decode(input) ==
    LET tc == TypedCell_decode(input)
    IN  IF tc = None THEN None
        ELSE Some([cell |-> tc[1], cache |-> Cache_default])

\* Faulty variant: a cached None is marked clean without erasing the slot.
SyncCell_flush_skipsClear(s) ==
    IF Cache_is_dirty(s.cache)
    THEN LET g  == Cache_get(s.cache)
             s1 == IF g.ret # None THEN TypedCell_store(s, g.ret[1]) ELSE s
         IN  IF g.panic
             THEN [s |-> s, ret |-> None, panic |-> TRUE, invoked |-> FALSE]
             ELSE [s |-> [s1 EXCEPT !.cache = Cache_mark_clean(@)],
                   ret |-> None, panic |-> FALSE, invoked |-> FALSE]
    ELSE [s |-> s, ret |-> None, panic |-> FALSE, invoked |-> FALSE]

SyncCell_flush(s) ==
    IF Cache_is_dirty(s.cache)
    THEN LET g  == Cache_get(s.cache)
             s1 == IF g.ret # None
                   THEN TypedCell_store(s, g.ret[1])
                   ELSE TypedCell_clear(s)
         IN  IF g.panic
             THEN [s |-> s, ret |-> None, panic |-> TRUE, invoked |-> FALSE]
             ELSE [s |-> [s1 EXCEPT !.cache = Cache_mark_clean(@)],
                   ret |-> None, panic |-> FALSE, invoked |-> FALSE]
    ELSE [s |-> s, ret |-> None, panic |-> FALSE, invoked |-> FALSE]

\* Faulty variant: clear forgets to mark the cache dirty.
SyncCell_clear_notDirty(s) ==
    [s |-> [s EXCEPT !.cache = Cache_update(@, None)],
     ret |-> None, panic |-> FALSE, invoked |-> FALSE]

SyncCell_clear(s) ==
    [s |-> [s EXCEPT !.cache = Cache_mark_dirty(Cache_update(@, None))],
     ret |-> None, panic |-> FALSE, invoked |-> FALSE]

\* Faulty variant: get takes the mutable path and marks the cache dirty.
SyncCell_get_marksDirty(s) ==
    LET s1 == EnsureSynced(s)
        s2 == [s1 EXCEPT !.cache = Cache_mark_dirty(@)]
        g  == Cache_get(s2.cache)
    IN  [s |-> s2, ret |-> g.ret, panic |-> g.panic, invoked |-> FALSE]

SyncCell_get(s) ==
    LET s1 == EnsureSynced(s)
        g  == Cache_get(s1.cache)
    IN  [s |-> s1, ret |-> g.ret, panic |-> g.panic, invoked |-> FALSE]

\* Faulty variant: set writes through to the slot at once.
SyncCell_set_writeThrough(s, val) ==
    [s |-> TypedCell_store(
              [s EXCEPT !.cache = Cache_mark_dirty(Cache_update(@, Some(val)))],
              val),
     ret |-> None, panic |-> FALSE, invoked |-> FALSE]

SyncCell_set(s, val) ==
    [s |-> [s EXCEPT !.cache = Cache_mark_dirty(Cache_update(@, Some(val)))],
     ret |-> None, panic |-> FALSE, invoked |-> FALSE]

\* Faulty variant: get_mut hands out the value without marking it dirty.
SyncCell_get_mut_notDirty(s) ==
    LET s1 == EnsureSynced(s)
        g  == Cache_get(s1.cache)
    IN  [s |-> s1, ret |-> g.ret, panic |-> g.panic, invoked |-> FALSE]

SyncCell_get_mut(s) ==
    LET s1 == EnsureSynced(s)
        s2 == [s1 EXCEPT !.cache = Cache_mark_dirty(@)]
        g  == Cache_get_mut(s2.cache)
    IN  [s |-> [s2 EXCEPT !.cache = g.entry],
         ret |-> g.ret, panic |-> g.panic, invoked |-> FALSE]

\* The caller assigns through the &mut T that get_mut returned: w is None
\* when it does not write, Some(v) when it writes v.  There is no
\* reference to write through when get_mut returned None.
WriteThroughRef(r, w) ==
    IF r.ret # None /\ w # None /\ ~r.panic
    THEN [r EXCEPT !.s.cache.sync_entry.cell_val = w]
    ELSE r

\* Faulty variant: an absent value is only read, the cache is not dirtied.
SyncCell_mutate_with_cleanWhenAbsent(s, f) ==
    LET g == SyncCell_get(s)
        r == SyncCell_get_mut(s)
    IN  IF g.ret = None
        THEN g
        ELSE LET nv == Some(f[r.ret[1]])
             IN  [s |-> [r.s EXCEPT !.cache.sync_entry.cell_val = nv],
                  ret |-> nv, panic |-> FALSE, invoked |-> TRUE]

SyncCell_mutate_with(s, f) ==
    LET r == SyncCell_get_mut(s)
    IN  IF r.ret # None /\ ~r.panic
        THEN LET nv == Some(f[r.ret[1]])
             IN  [s |-> [r.s EXCEPT !.cache.sync_entry.cell_val = nv],
                  ret |-> nv, panic |-> FALSE, invoked |-> TRUE]
        ELSE [r EXCEPT !.ret = None]

\* --------------------------------------------------------------- state
VARIABLES
    cache,      \* SyncCell.cache: the CacheEntry
    slot,       \* the persisted content of the cell's storage slot
    reads,      \* TestEnv::total_reads()
    writes,     \* TestEnv::total_writes()
    panicked,   \* a panic! aborted the run
    hist,       \* the calls made so far, each with what it did
    key,        \* SyncCell.cell: the address of the cell's slot
    ref         \* an uncached Option<T> variable given the same calls

vars == <<cache, slot, reads, writes, panicked, hist, key, ref>>

State == [cache |-> cache, slot |-> slot, reads |-> reads, writes |-> writes]

\* What a call did, from the state before and its result.
Event(op, arg, r) ==
    [op      |-> op,
     arg     |-> arg,
     ret     |-> r.ret,
     invoked |-> r.invoked,
     loads   |-> r.s.reads - reads,
     write   |-> IF r.s.writes = writes THEN "none"
                 ELSE IF r.s.slot = None THEN "clear" ELSE "store"]

Apply(op, arg, r) ==
    /\ ~panicked
    /\ Len(hist) < MaxOps
    /\ cache' = r.s.cache
    /\ slot' = r.s.slot
    /\ reads' = r.s.reads
    /\ writes' = r.s.writes
    /\ panicked' = r.panic
    /\ hist' = Append(hist, Event(op, arg, r))
    /\ key' = key

\* A cell at address k, over a slot that holds anything.
InitAt(k) ==
    /\ \E slot0 \in OptionT :
          LET s == SyncCell_new_using_alloc(slot0)
          IN  /\ cache = s.cache
              /\ slot = s.slot
              /\ reads = s.reads
              /\ writes = s.writes
    /\ panicked = FALSE
    /\ hist = <<>>
    /\ key = k
    /\ ref = slot

Init == InitAt(FirstKey)

\* In every action the last conjunct is the same call on the uncached
\* variable ref.
Get ==
    /\ Apply("get", None, SyncCell_get(State))
    /\ ref' = ref

GetMut == \E w \in OptionT :
    /\ Apply("get_mut", None, WriteThroughRef(SyncCell_get_mut(State), w))
    /\ ref' = IF ref # None /\ w # None THEN w ELSE ref

Set == \E val \in Values :
    /\ Apply("set", Some(val), SyncCell_set(State, val))
    /\ ref' = Some(val)

Clear ==
    /\ Apply("clear", None, SyncCell_clear(State))
    /\ ref' = None

MutateWith == \E f \in Closures :
    /\ Apply("mutate_with", None, SyncCell_mutate_with(State, f))
    /\ ref' = IF ref # None THEN Some(f[ref[1]]) ELSE None

Flush ==
    /\ Apply("flush", None, SyncCell_flush(State))
    /\ ref' = ref

Next == Get \/ GetMut \/ Set \/ Clear \/ MutateWith \/ Flush

Spec == Init /\ [][Next]_vars

\* ------------------------------------------------- the Cache on its own
\* Cache is a public type: its operations called directly, in any order,
\* on the cache of a cell whose slot is left alone.
CacheEvent(op, arg, ret, flag) ==
    [op |-> op, arg |-> arg, ret |-> ret, flag |-> flag,
     invoked |-> FALSE, loads |-> 0, write |-> "none"]

CacheApply(op, arg, c, ret, flag, panic) ==
    /\ ~panicked
    /\ Len(hist) < MaxOps
    /\ cache' = c
    /\ panicked' = panic
    /\ hist' = Append(hist, CacheEvent(op, arg, ret, flag))
    /\ UNCHANGED <<slot, reads, writes, key, ref>>

CacheUpdate == \E new_val \in OptionT :
    CacheApply("update", new_val, Cache_update(cache, new_val), None, FALSE, FALSE)

CacheMarkDirty ==
    CacheApply("mark_dirty", None, Cache_mark_dirty(cache), None, FALSE, FALSE)

CacheMarkClean ==
    CacheApply("mark_clean", None, Cache_mark_clean(cache), None, FALSE, FALSE)

CacheIsDirty ==
    CacheApply("is_dirty", None, cache, None, Cache_is_dirty(cache), FALSE)

CacheIsSynced ==
    CacheApply("is_synced", None, cache, None, Cache_is_synced(cache), FALSE)

CacheGet ==
    LET g == Cache_get(cache)
    IN  CacheApply("get", None, cache, g.ret, FALSE, g.panic)

CacheGetMut ==
    LET g == Cache_get_mut(cache)
    IN  CacheApply("get_mut", None, g.entry, g.ret, FALSE, g.panic)

NextCache ==
    \/ CacheUpdate \/ CacheMarkDirty \/ CacheMarkClean
    \/ CacheIsDirty \/ CacheIsSynced \/ CacheGet \/ CacheGetMut

SpecCache == Init /\ [][NextCache]_vars

\* ------------------------------------------------------ encode / decode
\* A cell embedded in a larger structure is encoded and decoded again: the
\* decoded cell replaces the original, over the same storage.
Decode == \E tail \in Tails :
    LET bytes == SyncCell_encode_to(key, <<>>)
        d     == SyncCell_decode(bytes \o tail)
    IN  /\ ~panicked
        /\ Len(hist) < MaxOps
        /\ d # None
        /\ key' = d[1].cell
        /\ cache' = d[1].cache
        /\ hist' = Append(hist, [op |-> "decode", arg |-> None, ret |-> None,
                                  invoked |-> FALSE, loads |-> 0,
                                  write |-> "none", bytes |-> bytes])
        /\ ref' = slot
        /\ UNCHANGED <<slot, reads, writes, panicked>>

InitCodec == \E k \in Keys : InitAt(k)

NextCodec == Next \/ Decode

SpecCodec == InitCodec /\ [][NextCodec]_vars

TypeOK ==
    /\ cache \in {Desync} \cup
                 {Sync([dirty |-> d, cell_val |-> v]) : d \in BOOLEAN, v \in OptionT}
    /\ slot \in OptionT
    /\ reads \in 0..MaxOps
    /\ writes \in 0..MaxOps
    /\ panicked \in BOOLEAN
    /\ Len(hist) <= MaxOps
    /\ key \in Keys
    /\ ref \in OptionT

\* ------------------------------------------------------------- helpers
\* The properties below read the state directly, never through the
\* operators that model the code.
IsDesync == cache.tag = "Desync"
IsSync == cache.tag = "Sync"
IsDirty == IsSync /\ cache.sync_entry.dirty
IsClean == IsSync /\ ~cache.sync_entry.dirty
CachedVal == cache.sync_entry.cell_val

N == Len(hist)
\* Every call so far is one of ops.
OnlyOps(ops) == \A i \in 1..N : hist[i].op \in ops
\* At least one call of ops, then one flush, and nothing else.
ThenFlush(ops) ==
    /\ N >= 2
    /\ hist[N].op = "flush"
    /\ \A i \in 1..(N - 1) : hist[i].op \in ops
\* This step is a call of op; Done is what it did.
Step(op) == Len(hist') = N + 1 /\ hist'[N + 1].op = op
Done == hist'[N + 1]
NoIO == reads' = reads /\ writes' = writes /\ slot' = slot

\* -------------------------------------------------------------- claims

\* C1: on a cell that starts Desync, a run of N >= 1 calls of get and
\* get_mut in any mix performs exactly one load: the first call performs
\* it and no later call performs any.
C1_LoadOnce ==
    (N >= 1 /\ OnlyOps({"get", "get_mut"})) =>
        /\ reads = 1
        /\ hist[1].loads = 1
        /\ \A i \in 2..N : hist[i].loads = 0

C1_Witness ==
    /\ N >= 3
    /\ OnlyOps({"get", "get_mut"})
    /\ \E i, j \in 1..N : hist[i].op = "get" /\ hist[j].op = "get_mut"
    /\ reads = 1

\* C2: whatever calls are made on one cell, in whatever order, at most one
\* load is performed in total: nothing, flush included, takes a Sync cache
\* back to Desync.
C2_AtMostOneLoad ==
    [][/\ reads' <= 1
       /\ IsSync => cache'.tag = "Sync"]_vars

C2_Witness ==
    /\ reads = 1
    /\ \E i, j, k \in 1..N :
          /\ i < j /\ j < k
          /\ hist[i].loads = 1
          /\ hist[j].op = "flush" /\ hist[j].write # "none"
          /\ hist[k].op \in {"get", "get_mut"}

\* C3: flush on a dirty cache performs exactly one write, a store of v when
\* Some(v) is cached and a clear of the slot when None is cached, and
\* leaves the cache clean with the slot equal to the cached value; flush on
\* a cache that is not dirty performs nothing and changes nothing.
C3_Flush ==
    [][Step("flush") =>
          IF IsDirty
          THEN /\ writes' = writes + 1
               /\ reads' = reads
               /\ Done.write = (IF CachedVal = None THEN "clear" ELSE "store")
               /\ slot' = CachedVal
               /\ cache' = Sync([dirty |-> FALSE, cell_val |-> CachedVal])
          ELSE /\ NoIO
               /\ cache' = cache
               /\ Done.write = "none"]_vars

C3_Witness ==
    \E i, j, k \in 1..N :
        /\ hist[i].op = "flush" /\ hist[i].write = "store"
        /\ hist[j].op = "flush" /\ hist[j].write = "clear"
        /\ hist[k].op = "flush" /\ hist[k].write = "none"

\* C4: only flush writes the slot: get, get_mut, set, clear and mutate_with
\* leave the persisted content and the write count as they were.
C4_WritesOnlyInFlush ==
    [][~Step("flush") => (slot' = slot /\ writes' = writes)]_vars

C4_Witness ==
    /\ N >= 4
    /\ OnlyOps({"get", "get_mut", "set", "clear", "mutate_with"})
    /\ \E i, j \in 1..N : hist[i].op = "set" /\ hist[j].op = "mutate_with"
    /\ IsDirty
    /\ CachedVal # slot
    /\ writes = 0

\* C5: a flush that directly follows a flush performs no read and no write
\* and leaves cache and slot unchanged.
C5_FlushIdempotent ==
    [][(N >= 1 /\ hist[N].op = "flush" /\ Step("flush")) =>
          /\ NoIO
          /\ cache' = cache
          /\ Done.write = "none"
          /\ Done.loads = 0]_vars

C5_Witness ==
    /\ N >= 3
    /\ hist[N].op = "flush" /\ hist[N].write = "none"
    /\ hist[N - 1].op = "flush" /\ hist[N - 1].write # "none"

\* C6: on a fresh cell, N >= 1 calls of set and then one flush perform no
\* read and exactly one write; nothing is read or written before the
\* flush, and the value written is the argument of the last set.
C6_SetsThenFlush ==
    /\ (N >= 1 /\ OnlyOps({"set"})) => (reads = 0 /\ writes = 0)
    /\ ThenFlush({"set"}) =>
          /\ reads = 0
          /\ writes = 1
          /\ hist[N].write = "store"
          /\ slot = hist[N - 1].arg

C6_Witness ==
    /\ ThenFlush({"set"})
    /\ N >= 3
    /\ hist[N - 2].arg # hist[N - 1].arg
    /\ slot = hist[N - 1].arg

\* C7: on a fresh cell, N >= 1 calls of clear and then one flush perform no
\* read and exactly one write, and that write erases the slot.
C7_ClearsThenFlush ==
    /\ (N >= 1 /\ OnlyOps({"clear"})) => (reads = 0 /\ writes = 0)
    /\ ThenFlush({"clear"}) =>
          /\ reads = 0
          /\ writes = 1
          /\ hist[N].write = "clear"
          /\ slot = None

C7_Witness ==
    /\ ThenFlush({"clear"})
    /\ N >= 3
    /\ hist[N].write = "clear"

\* C8: on a fresh cell, N >= 1 calls of get_mut and then one flush perform
\* exactly one read and exactly one write, whether or not the caller writes
\* through the reference and whether the loaded value is present or absent.
C8_GetMutsThenFlush ==
    /\ (N >= 1 /\ OnlyOps({"get_mut"})) => (reads = 1 /\ writes = 0)
    /\ ThenFlush({"get_mut"}) => (reads = 1 /\ writes = 1)

\* The loaded value was absent, so the caller had nothing to write through.
C8_Witness ==
    /\ ThenFlush({"get_mut"})
    /\ N >= 3
    /\ hist[1].ret = None
    /\ writes = 1

\* C9: get never dirties and never writes: from Desync it leaves the cache
\* Sync and clean with the loaded value, from Sync it leaves the cache as
\* it was (a pending dirty flag survives); a cell only ever read with get
\* writes nothing when flushed.
C9_GetIsClean ==
    [][/\ Step("get") =>
            /\ slot' = slot
            /\ writes' = writes
            /\ IF IsDesync
               THEN /\ cache' = Sync([dirty |-> FALSE, cell_val |-> slot])
                    /\ reads' = reads + 1
                    /\ Done.ret = slot
               ELSE /\ cache' = cache
                    /\ reads' = reads
                    /\ Done.ret = CachedVal
       /\ (N >= 1 /\ OnlyOps({"get"}) /\ Step("flush")) =>
            /\ writes' = 0
            /\ Done.write = "none"
            /\ slot' = slot]_vars

C9_Witness ==
    /\ N >= 3
    /\ hist[N].op = "get"
    /\ hist[N - 1].op \in {"set", "clear", "get_mut"}
    /\ IsDirty
    /\ writes = 0

\* C10: mutate_with on a cell whose value is absent (None cached, or Desync
\* over an empty slot) returns None without invoking the closure, yet
\* leaves the cache dirty, and a flush that follows directly issues exactly
\* one write, an erase.
Absent == (IsSync /\ CachedVal = None) \/ (IsDesync /\ slot = None)

C10_AbsentMutate ==
    [][/\ (Step("mutate_with") /\ Absent) =>
            /\ Done.ret = None
            /\ ~Done.invoked
            /\ cache' = Sync([dirty |-> TRUE, cell_val |-> None])
            /\ writes' = writes
       /\ (/\ N >= 1
           /\ hist[N].op = "mutate_with"
           /\ hist[N].ret = None
           /\ Step("flush")) =>
            /\ writes' = writes + 1
            /\ Done.write = "clear"
            /\ slot' = None]_vars

\* No value was ever present: the slot was empty and nothing was set.
C10_Witness ==
    /\ N = 2
    /\ hist[1].op = "mutate_with" /\ hist[1].loads = 1 /\ hist[1].ret = None
    /\ hist[2].op = "flush" /\ hist[2].write = "clear"
    /\ writes = 1

\* C11: after set(v), from whatever state the cell was in, the next get
\* returns Some(v) and performs no load.
C11_SetThenGet ==
    [][(N >= 1 /\ hist[N].op = "set" /\ Step("get")) =>
          /\ Done.ret = hist[N].arg
          /\ Done.loads = 0
          /\ reads' = reads]_vars

\* The set hit a Desync cache over a slot that holds another value.
C11_Witness ==
    /\ N = 2
    /\ hist[1].op = "set"
    /\ hist[2].op = "get" /\ hist[2].ret = hist[1].arg
    /\ slot # hist[1].arg
    /\ reads = 0

\* C12: no sequence of calls of the public operations reaches the panic of
\* CacheEntry::get or CacheEntry::get_mut on a Desync entry; a flush of a
\* cell that was never accessed does not read the cache.
C12_NoDesyncRead ==
    /\ ~panicked
    /\ (N >= 1 /\ hist[N].op \in {"get", "get_mut", "mutate_with"}) => IsSync

C12_Witness ==
    /\ N >= 3
    /\ hist[1].op = "flush"
    /\ hist[2].op = "flush"
    /\ IsDesync
    /\ ~panicked

\* C16: whenever the cache is Sync and not dirty, the cached value is the
\* value persisted in the slot.
C16_CleanCoherent == IsClean => CachedVal = slot

\* A flush made the slot catch up with a value that was set.
C16_Witness ==
    /\ N >= 3
    /\ IsClean
    /\ hist[N].op = "get"
    /\ hist[N - 1].op = "flush" /\ hist[N - 1].write = "store"
    /\ hist[N - 2].op = "set"
    /\ CachedVal = slot

\* C17: a flush writes exactly when set, clear, get_mut or mutate_with was
\* called since the previous flush (or since creation); the number of
\* writes is the number of such flushes and never exceeds the number of
\* flushes.
Mutators == {"set", "clear", "get_mut", "mutate_with"}
MutatedSinceFlush(j) ==
    \E i \in 1..(j - 1) :
        /\ hist[i].op \in Mutators
        /\ \A k \in (i + 1)..(j - 1) : hist[k].op # "flush"
Flushes == {j \in 1..N : hist[j].op = "flush"}

C17_WriteIffMutated ==
    /\ \A j \in Flushes : (hist[j].write # "none") <=> MutatedSinceFlush(j)
    /\ \A j \in 1..N : hist[j].op # "flush" => hist[j].write = "none"
    /\ writes = Cardinality({j \in Flushes : MutatedSinceFlush(j)})
    /\ writes <= Cardinality(Flushes)

C17_Witness ==
    \E j, k \in Flushes :
        /\ j < k
        /\ hist[j].write # "none" /\ hist[j - 1].op = "get"
        /\ hist[k].write = "none" /\ hist[k - 1].op = "get"

\* C14: update always leaves the entry Sync, not dirty, with the new value:
\* from Desync, from Sync and clean, and from Sync and dirty.
C14_UpdateCleans ==
    [][Step("update") =>
          cache' = Sync([dirty |-> FALSE, cell_val |-> Done.arg])]_vars

\* C15: a Desync entry is never dirty: is_dirty answers false on it, and
\* mark_dirty and mark_clean leave it Desync, recording nothing.
C15_DesyncNeverDirty ==
    [][/\ (IsDesync /\ Step("is_dirty")) => Done.flag = FALSE
       /\ (IsDesync /\ (Step("mark_dirty") \/ Step("mark_clean"))) =>
             cache' = Desync
       /\ (Step("update") /\ N >= 1 /\ hist[N].op = "mark_dirty"
           /\ IsDesync) => cache'.sync_entry.dirty = FALSE]_vars

C15_Witness ==
    /\ N >= 3
    /\ IsDesync
    /\ hist[N - 2].op = "mark_dirty"
    /\ hist[N - 1].op = "mark_clean"
    /\ hist[N].op = "is_dirty" /\ hist[N].flag = FALSE

\* C13: encoding writes only the slot address, and decoding gives a cell at
\* that address with a Desync cache, without a load or a write: whatever
\* the state of the original, a pending write of it is not carried over.
C13_Codec ==
    [][/\ Step("decode") =>
            /\ Done.bytes = key
            /\ key' = key
            /\ cache' = Desync
            /\ NoIO
       /\ (N >= 1 /\ hist[N].op = "decode" /\ Step("flush")) =>
            /\ Done.write = "none"
            /\ NoIO]_vars

\* The original was dirty with a value the slot does not hold.
C13_Witness ==
    /\ N >= 3
    /\ hist[N - 2].op = "set"
    /\ hist[N - 1].op = "decode"
    /\ hist[N].op = "flush" /\ hist[N].write = "none"
    /\ slot # hist[N - 2].arg
    /\ IsDesync
    /\ writes = 0

\* C18: the cell behaves as the uncached variable ref: get and mutate_with
\* return what the same call on ref returns, and after a flush the slot
\* holds the value of ref.
C18_Refines ==
    [][/\ Step("get") => Done.ret = ref'
       /\ Step("mutate_with") =>
            /\ Done.ret = ref'
            /\ Done.invoked = (ref # None)
       /\ Step("flush") => slot' = ref']_vars

C18_Witness ==
    /\ N >= 4
    /\ hist[1].op = "set"
    /\ hist[2].op = "mutate_with" /\ hist[2].invoked
    /\ hist[2].ret # hist[1].arg
    /\ hist[3].op = "get" /\ hist[3].ret = hist[2].ret
    /\ hist[4].op = "flush" /\ hist[4].write = "store"
    /\ slot = hist[2].ret
====
